---- MODULE Spec2Model ----
(***************************************************************************)
(* Model of gplay_mobile_search.py: the MobilePlayAPI client (credential   *)
(* cache, login, record normalizer, response extractor, pagination/dedup   *)
(* search loop) on top of the external GooglePlayAPI protocol client.      *)
(*                                                                         *)
(* The remote client and the file system are the environment: every        *)
(* request to the remote client is one step whose outcome (a page, a       *)
(* rate-limit error, another error, accepted or rejected tokens) is        *)
(* chosen nondeterministically.                                            *)
(***************************************************************************)
EXTENDS Integers, Sequences, FiniteSets, TLC

(***************************************************************************)
(* Python values.  The data handled by the program is untyped JSON-like    *)
(* data, so every value carries its type.  A string is the sequence of its *)
(* characters, so that parsing and splitting are computed.                 *)
(***************************************************************************)
PyNone == [ty |-> "none"]
Str(s) == [ty |-> "str", v |-> s]
Num(n) == [ty |-> "num", v |-> n]
List(q) == [ty |-> "list", v |-> q]
Dict(r) == [ty |-> "dict", v |-> r]

\* The empty dict {} : a function with an empty domain.
EmptyMap == [k \in {} |-> PyNone]
EmptyDict == Dict(EmptyMap)
EmptyList == List(<<>>)
EmptyStr == Str(<<>>)

IsDict(x) == x.ty = "dict"
IsList(x) == x.ty = "list"
IsStr(x) == x.ty = "str"
IsNum(x) == x.ty = "num"
IsNone(x) == x.ty = "none"

\* bool(x)
Truthy(x) ==
  CASE x.ty = "none" -> FALSE
    [] x.ty = "str" -> Len(x.v) > 0
    [] x.ty = "num" -> x.v # 0
    [] x.ty = "list" -> Len(x.v) > 0
    [] x.ty = "dict" -> DOMAIN x.v # {}

\* key in d, for a dict d
HasKey(d, k) == k \in DOMAIN d.v

\* d.get(k, default), for a dict d
Get(d, k, default) == IF k \in DOMAIN d.v THEN d.v[k] ELSE default

\* a or b
PyOr(a, b) == IF Truthy(a) THEN a ELSE b

\* x == y on Python values (never raises)
RECURSIVE PyEq(_, _)
PyEq(x, y) ==
  /\ x.ty = y.ty
  /\ CASE x.ty = "none" -> TRUE
       [] x.ty = "num" -> x.v = y.v
       [] x.ty = "str" -> x.v = y.v
       [] x.ty = "list" ->
            /\ Len(x.v) = Len(y.v)
            /\ \A i \in 1..Len(x.v) : PyEq(x.v[i], y.v[i])
       [] x.ty = "dict" ->
            /\ DOMAIN x.v = DOMAIN y.v
            /\ \A k \in DOMAIN x.v : PyEq(x.v[k], y.v[k])

\* Whether x can be a member of a set (hash(x) does not raise TypeError).
Hashable(x) == x.ty \in {"none", "str", "num"}

\* Whether "for e in x" is possible (otherwise TypeError).
Iterable(x) == x.ty \in {"list", "str", "dict"}

\* The elements "for e in x" visits.  A string yields its characters and a
\* dict its keys: both are strings.
Items(x) ==
  CASE x.ty = "list" -> x.v
    [] x.ty = "str" -> [i \in 1..Len(x.v) |-> Str(<<x.v[i]>>)]
    [] x.ty = "dict" ->
         LET ks == DOMAIN x.v
             order == CHOOSE q \in [1..Cardinality(ks) -> ks] :
                        \A i, j \in 1..Cardinality(ks) : i # j => q[i] # q[j]
         IN [i \in 1..Cardinality(ks) |-> Str(<<order[i]>>)]

\* The result of a call: a value, or an exception.
Ok(v) == [raised |-> FALSE, val |-> v]
Raise(e) == [raised |-> TRUE, exc |-> e]

\* x[:n] for n >= 0 on a sequence
Prefix(q, n) == IF n >= Len(q) THEN q ELSE SubSeq(q, 1, n)

\* q[:n] for any integer n (a negative n counts from the end)
Slice(q, n) ==
  IF n >= 0 THEN Prefix(q, n)
  ELSE IF Len(q) + n <= 0 THEN <<>> ELSE SubSeq(q, 1, Len(q) + n)

Digits == {"0", "1", "2", "3", "4", "5", "6", "7", "8", "9"}

DigitVal(c) ==
  CASE c = "0" -> 0 [] c = "1" -> 1 [] c = "2" -> 2 [] c = "3" -> 3
    [] c = "4" -> 4 [] c = "5" -> 5 [] c = "6" -> 6 [] c = "7" -> 7
    [] c = "8" -> 8 [] c = "9" -> 9

\* A character that str.isdigit() accepts and int() does not parse: the
\* superscript two (U+00B2), a digit that is no decimal digit.
SuperscriptTwo == "sup2"

\* What int() parses: non-empty and only decimal digits
IsDecimalStr(s) == Len(s) > 0 /\ \A i \in 1..Len(s) : s[i] \in Digits

\* str.isdigit(): non-empty and only digit characters
IsDigitStr(s) ==
  Len(s) > 0 /\ \A i \in 1..Len(s) : s[i] \in Digits \cup {SuperscriptTwo}

\* The number a string of digits denotes.
RECURSIVE DigitsToNat(_)
DigitsToNat(s) ==
  IF Len(s) = 0 THEN 0
  ELSE 10 * DigitsToNat(SubSeq(s, 1, Len(s) - 1)) + DigitVal(s[Len(s)])

\* int(x): a number is kept, a string is parsed (optional sign, then
\* digits) or raises ValueError, anything else raises TypeError.
PyInt(x) ==
  CASE x.ty = "num" -> Ok(x.v)
    [] x.ty = "str" ->
         LET s == x.v
             signed == Len(s) > 0 /\ s[1] \in {"+", "-"}
             body == IF signed THEN Tail(s) ELSE s
         IN IF IsDecimalStr(body)
            THEN Ok(IF signed /\ s[1] = "-" THEN 0 - DigitsToNat(body)
                    ELSE DigitsToNat(body))
            ELSE Raise("ValueError")
    [] OTHER -> Raise("TypeError")

\* s.split(sep)[0]: the characters before the first sep
RECURSIVE SplitFirst(_, _)
SplitFirst(s, sep) ==
  IF Len(s) = 0 \/ s[1] = sep THEN <<>>
  ELSE <<s[1]>> \o SplitFirst(Tail(s), sep)

\* Whether the sequence sub occurs in s ("sub in s" on strings).
Contains(s, sub) ==
  \E i \in 0..(Len(s) - Len(sub)) :
    \A j \in 1..Len(sub) : s[i + j] = sub[j]


(***************************************************************************)
(* Record normalizer: MobilePlayAPI._parse_app                             *)
(***************************************************************************)
SummaryLen == 200
MicrosPerUnit == 1000000

RECURSIVE Gcd(_, _)
Gcd(a, b) == IF b = 0 THEN a ELSE Gcd(b, a % b)

Abs(n) == IF n < 0 THEN 0 - n ELSE n

\* The float n / d, kept as the fraction in lowest terms (d > 0).
Float(n, d) ==
  LET g == Gcd(Abs(n), d)
  IN [ty |-> "float", num |-> n \div g, den |-> d \div g]

FloatIsZero(f) == f.num = 0

\* for img in images: if img.get("imageType") == 4: icon = ...; break
RECURSIVE FindIcon(_)
FindIcon(imgs) ==
  IF Len(imgs) = 0 THEN Ok(PyNone)
  ELSE IF ~IsDict(imgs[1]) THEN Raise("AttributeError")
  ELSE IF PyEq(Get(imgs[1], "imageType", PyNone), Num(4))
       THEN Ok(Get(imgs[1], "imageUrl", PyNone))
       ELSE FindIcon(Tail(imgs))

\* details = item.get("details", {}).get("appDetails", {})
ParseDetails(item) ==
  LET d0 == Get(item, "details", EmptyDict)
  IN IF ~IsDict(d0) THEN Raise("AttributeError")
     ELSE Ok(Get(d0, "appDetails", EmptyDict))

\* if details: developer = ...; installs = ...
ParseDeveloper(details) ==
  IF ~Truthy(details) THEN Ok([developer |-> PyNone, installs |-> PyNone])
  ELSE IF ~IsDict(details) THEN Raise("AttributeError")
  ELSE Ok([developer |-> Get(details, "developerName", PyNone),
           installs |-> Get(details, "numDownloads", PyNone)])

\* Mutant of ParseScore: the score of a document without rating is 0.
ParseScoreZeroDefault(item) ==
  LET agg == Get(item, "aggregateRating", EmptyDict)
  IN IF ~Truthy(agg) THEN Ok(Num(0))
     ELSE IF ~IsDict(agg) THEN Raise("AttributeError")
     ELSE Ok(Get(agg, "starRating", PyNone))

\* agg = item.get("aggregateRating", {}); if agg: score = agg.get("starRating")
ParseScore(item) ==
  LET agg == Get(item, "aggregateRating", EmptyDict)
  IN IF ~Truthy(agg) THEN Ok(PyNone)
     ELSE IF ~IsDict(agg) THEN Raise("AttributeError")
     ELSE Ok(Get(agg, "starRating", PyNone))

\* images = item.get("image", []); for img in images: ...
ParseIcon(item) ==
  LET images == Get(item, "image", EmptyList)
  IN IF ~Iterable(images) THEN Raise("TypeError") ELSE FindIcon(Items(images))

\* if isinstance(micros, str): micros = int(micros) if micros.isdigit() else 0
ParseMicros(micros) ==
  IF IsStr(micros)
  THEN (IF ~IsDigitStr(micros.v) THEN Ok(Num(0))
        ELSE IF PyInt(micros).raised THEN PyInt(micros)
        ELSE Ok(Num(PyInt(micros).val)))
  ELSE Ok(micros)

\* price = micros / 1_000_000; free = price == 0
PriceOf(micros) ==
  IF micros.raised THEN micros
  ELSE IF ~IsNum(micros.val) THEN Raise("TypeError")
  ELSE Ok([price |-> Float(micros.val.v, MicrosPerUnit),
           free |-> FloatIsZero(Float(micros.val.v, MicrosPerUnit))])

\* offer = item.get("offer", []); price = micros / 1_000_000; free = price == 0
ParseOffer(item) ==
  LET offer == Get(item, "offer", EmptyList)
      dflt == [price |-> Float(0, 1), free |-> TRUE]
  IN IF ~Truthy(offer) THEN Ok(dflt)
     ELSE LET first_offer == IF IsList(offer) THEN offer.v[1] ELSE offer
          IN IF ~IsDict(first_offer) THEN Ok(dflt)
             ELSE PriceOf(ParseMicros(Get(first_offer, "micros", Num(0))))

\* summary = item["descriptionHtml"][:200], else item["descriptionShort"]
ParseSummary(item) ==
  IF HasKey(item, "descriptionHtml")
  THEN LET h == item.v["descriptionHtml"]
       IN IF IsStr(h) THEN Ok(Str(Prefix(h.v, SummaryLen)))
          ELSE IF IsList(h) THEN Ok(List(Prefix(h.v, SummaryLen)))
          ELSE Raise("TypeError")
  ELSE IF HasKey(item, "descriptionShort") THEN Ok(item.v["descriptionShort"])
  ELSE Ok(PyNone)

\* details.get("developerEmail", "").split("@")[0]
\*   if details.get("developerEmail") else None
ParseDeveloperId(details) ==
  IF ~IsDict(details) THEN Raise("AttributeError")
  ELSE LET email == Get(details, "developerEmail", PyNone)
       IN IF ~Truthy(email) THEN Ok(PyNone)
          ELSE IF ~IsStr(email) THEN Raise("AttributeError")
          ELSE Ok(Str(SplitFirst(email.v, "@")))

\* The record _parse_app returns, from the fields extracted.
Assemble(item, dev, score, icon, offer, summary, devId) ==
  IF dev.raised THEN dev
  ELSE IF score.raised THEN score
  ELSE IF icon.raised THEN icon
  ELSE IF offer.raised THEN offer
  ELSE IF summary.raised THEN summary
  ELSE IF devId.raised THEN devId
  ELSE Ok([appId |-> PyOr(PyOr(Get(item, "id", PyNone),
                               Get(item, "docid", PyNone)), EmptyStr),
           title |-> IF HasKey(item, "title") THEN item.v["title"] ELSE EmptyStr,
           score |-> score.val,
           developer |-> dev.val.developer,
           developerId |-> devId.val,
           icon |-> icon.val,
           installs |-> dev.val.installs,
           price |-> offer.val.price,
           currency |-> Str(<<"U", "S", "D">>),
           free |-> offer.val.free,
           summary |-> summary.val])

ParseWithDetails(item, det) ==
  IF det.raised THEN det
  ELSE Assemble(item, ParseDeveloper(det.val), ParseScore(item), ParseIcon(item),
                ParseOffer(item), ParseSummary(item), ParseDeveloperId(det.val))

\* _parse_app(item), item a dict: the flat record, or the exception raised.
_parse_app(item) == ParseWithDetails(item, ParseDetails(item))

(***************************************************************************)
(* Response extractor: MobilePlayAPI._extract_apps_from_response           *)
(* The walk keeps [raised, apps, next]: the apps collected so far and the  *)
(* last cursor met; an exception ends the walk.                            *)
(***************************************************************************)
WalkRaise(e) == [raised |-> TRUE, exc |-> e, apps |-> <<>>, next |-> PyNone]

\* container = node.get("containerMetadata", {}); container.get("nextPageUrl")
ContainerCursor(node) ==
  IF ~IsDict(Get(node, "containerMetadata", EmptyDict))
  THEN Raise("AttributeError")
  ELSE Ok(Get(Get(node, "containerMetadata", EmptyDict), "nextPageUrl", PyNone))

\* if container.get("nextPageUrl"): next_page_url = container["nextPageUrl"]
SetCursor(acc, c) == IF Truthy(c) THEN [acc EXCEPT !.next = c] ELSE acc

AppendResult(acc, r) ==
  IF r.raised THEN WalkRaise(r.exc)
  ELSE [acc EXCEPT !.apps = Append(acc.apps, r.val)]

\* apps.append(self._parse_app(node))
AppendParsed(acc, node) == AppendResult(acc, _parse_app(node))

\* for app in cluster.get("subItem", []): if dict with id: parse and append
RECURSIVE WalkApps(_, _)
WalkApps(acc, apps) ==
  IF acc.raised \/ Len(apps) = 0 THEN acc
  ELSE WalkApps(IF IsDict(apps[1]) /\ Truthy(Get(apps[1], "id", PyNone))
                THEN AppendParsed(acc, apps[1])
                ELSE acc,
                Tail(apps))

WalkClusterDict(acc, cur, subs) ==
  IF cur.raised THEN WalkRaise(cur.exc)
  ELSE IF ~Iterable(subs) THEN WalkRaise("TypeError")
  ELSE WalkApps(SetCursor(acc, cur.val), Items(subs))

\* One cluster of a document's subItem.
WalkCluster(acc, cluster) ==
  IF ~IsDict(cluster) THEN acc
  ELSE WalkClusterDict(acc, ContainerCursor(cluster),
                       Get(cluster, "subItem", EmptyList))

RECURSIVE WalkClusters(_, _)
WalkClusters(acc, clusters) ==
  IF acc.raised \/ Len(clusters) = 0 THEN acc
  ELSE WalkClusters(WalkCluster(acc, clusters[1]), Tail(clusters))

\* if doc.get("id") and not doc.get("subItem"): the document is an app
DirectMatch(acc, doc) ==
  IF acc.raised THEN acc
  ELSE IF Truthy(Get(doc, "id", PyNone)) /\ ~Truthy(Get(doc, "subItem", PyNone))
       THEN AppendParsed(acc, doc)
       ELSE acc

WalkDocDict(acc, doc, cur, sub_items) ==
  IF cur.raised THEN WalkRaise(cur.exc)
  ELSE IF ~Iterable(sub_items) THEN WalkRaise("TypeError")
  ELSE DirectMatch(WalkClusters(SetCursor(acc, cur.val), Items(sub_items)), doc)

\* One top-level document.
WalkDoc(acc, doc) ==
  IF ~IsDict(doc) THEN acc
  ELSE WalkDocDict(acc, doc, ContainerCursor(doc), Get(doc, "subItem", EmptyList))

RECURSIVE WalkDocs(_, _)
WalkDocs(acc, docs) ==
  IF acc.raised \/ Len(docs) = 0 THEN acc
  ELSE WalkDocs(WalkDoc(acc, docs[1]), Tail(docs))

\* _extract_apps_from_response(data): [raised, apps, next]
_extract_apps_from_response(data) ==
  IF ~Iterable(data) THEN WalkRaise("TypeError")
  ELSE WalkDocs([raised |-> FALSE, exc |-> "", apps |-> <<>>, next |-> PyNone],
                Items(data))


(***************************************************************************)
(* State                                                                   *)
(***************************************************************************)
VARIABLES
  logged_in,   \* self._logged_in
  cfgFile,     \* the file at CONFIG_PATH: [kind, v]
  apiTok,      \* the tokens held by self.api (gsfId, authSubToken, ...)
  loginTrace,  \* what the last login call did (history)
  pc,          \* "idle", or "request": search() is about to send a request
  query,       \* search() argument
  n_hits,      \* search() argument
  all_apps,    \* search() local
  seen_ids,    \* search() local
  next_page,   \* search() local
  attempt,     \* search() local: index of the retry loop
  reqLog,      \* the requests search() sent in this call (history)
  pagesRecv,   \* the pages search() extracted in this call (history)
  outcome,     \* how the last search() or details() call ended
  result,      \* the list the last search() call returned
  login_done,  \* some login request to the remote client succeeded (history)
  default_api, \* the module-level _default_api: "None" or "client"
  call_arg,    \* the argument of a direct call of _parse_app or of
               \* _extract_apps_from_response
  call_ret     \* what that call returned or raised

clientVars == <<logged_in, cfgFile, apiTok, loginTrace, login_done>>
callVars == <<default_api, call_arg, call_ret>>
searchVars == <<pc, query, n_hits, all_apps, seen_ids, next_page, attempt,
                reqLog, pagesRecv, outcome, result>>
vars == <<logged_in, cfgFile, apiTok, loginTrace, pc, query, n_hits, all_apps,
          seen_ids, next_page, attempt, reqLog, pagesRecv, outcome, result,
          login_done, default_api, call_arg, call_ret>>

(***************************************************************************)
(* Credential cache: _load_config, _save_config                            *)
(* The file is absent, unreadable (open or json.load raises), or holds a   *)
(* JSON value.  A JSON value is kept as the Python value it parses to.     *)
(***************************************************************************)
FileAbsent == [kind |-> "absent", v |-> PyNone]
FileCorrupt == [kind |-> "corrupt", v |-> PyNone]
FileJson(x) == [kind |-> "json", v |-> x]

\* _load_config(): the parsed content, or None when absent or unreadable
_load_config(file) == IF file.kind = "json" THEN file.v ELSE PyNone

\* _save_config(): the file after writing the tokens of self.api
_save_config(tok) ==
  FileJson(Dict([gsfId |-> tok.gsfId,
                 authSubToken |-> tok.authSubToken,
                 deviceCheckinConsistencyToken |-> tok.deviceCheckinConsistencyToken,
                 deviceConfigToken |-> tok.deviceConfigToken,
                 dfeCookie |-> tok.dfeCookie]))

Tokens(g, a, c, d, k) ==
  [gsfId |-> g, authSubToken |-> a, deviceCheckinConsistencyToken |-> c,
   deviceConfigToken |-> d, dfeCookie |-> k]

NoTokens == Tokens(PyNone, PyNone, PyNone, PyNone, PyNone)

(***************************************************************************)
(* Login: login_anonymous, login                                           *)
(* cl is the client [logged_in, cfgFile, apiTok].  The remote client's     *)
(* answers are inputs: restoreOk (the cached tokens are accepted) and      *)
(* fresh (the tokens of a fresh login, or PyNone when that request fails). *)
(* A failed request of the remote client leaves its tokens as they were.   *)
(***************************************************************************)
NoTrace ==
  [call |-> "none", cacheRead |-> FALSE, reqs |-> <<>>, wrote |-> FALSE,
   raised |-> "", fileBefore |-> FileAbsent, flagBefore |-> FALSE]

StartTrace(cl, call) ==
  [call |-> call, cacheRead |-> FALSE, reqs |-> <<>>, wrote |-> FALSE,
   raised |-> "", fileBefore |-> cl.cfgFile, flagBefore |-> cl.logged_in]

\* A login request sent to the remote client: its kind, whether it succeeded,
\* and the tokens self.api holds after it.
LoginReq(kind, ok, tok) == [kind |-> kind, ok |-> ok, tok |-> tok]

\* Mutant of FreshLogin: _logged_in = True is set before the login request.
FreshLoginMarksFirst(cl, tr, kind, fresh) ==
  IF fresh = PyNone
  THEN [cl |-> [cl EXCEPT !.logged_in = TRUE],
        trace |-> [tr EXCEPT !.reqs = Append(@, LoginReq(kind, FALSE, cl.apiTok)),
                             !.raised = "fresh"]]
  ELSE [cl |-> [logged_in |-> TRUE, cfgFile |-> _save_config(fresh),
                apiTok |-> fresh],
        trace |-> [tr EXCEPT !.reqs = Append(@, LoginReq(kind, TRUE, fresh)),
                             !.wrote = TRUE]]

\* Mutant of FreshLogin: _save_config() is called before the login request.
FreshLoginSavesFirst(cl, tr, kind, fresh) ==
  IF fresh = PyNone
  THEN [cl |-> [cl EXCEPT !.cfgFile = _save_config(cl.apiTok)],
        trace |-> [tr EXCEPT !.reqs = Append(@, LoginReq(kind, FALSE, cl.apiTok)),
                             !.wrote = TRUE, !.raised = "fresh"]]
  ELSE [cl |-> [logged_in |-> TRUE, cfgFile |-> _save_config(cl.apiTok),
                apiTok |-> fresh],
        trace |-> [tr EXCEPT !.reqs = Append(@, LoginReq(kind, TRUE, fresh)),
                             !.wrote = TRUE]]

\* self.api.login(anonymous=True) or login(email=, password=), then
\* _save_config(), then _logged_in = True
FreshLogin(cl, tr, kind, fresh) ==
  IF fresh = PyNone
  THEN [cl |-> cl,
        trace |-> [tr EXCEPT !.reqs = Append(@, LoginReq(kind, FALSE, cl.apiTok)),
                             !.raised = "fresh"]]
  ELSE [cl |-> [logged_in |-> TRUE, cfgFile |-> _save_config(fresh),
                apiTok |-> fresh],
        trace |-> [tr EXCEPT !.reqs = Append(@, LoginReq(kind, TRUE, fresh)),
                             !.wrote = TRUE]]

\* The restore path of login_anonymous: "restored", "fallthrough" or "raised"
\* and whether a request was sent to the remote client.
RestorePath(config, restoreOk) ==
  IF ~Truthy(config) THEN [res |-> "fallthrough", sent |-> FALSE]
  ELSE IF ~IsDict(config) THEN [res |-> "raised", sent |-> FALSE]
  ELSE IF ~(Truthy(Get(config, "gsfId", PyNone))
            /\ Truthy(Get(config, "authSubToken", PyNone)))
       THEN [res |-> "fallthrough", sent |-> FALSE]
  ELSE IF PyInt(config.v["gsfId"]).raised
       THEN [res |-> "fallthrough", sent |-> FALSE]
  ELSE IF restoreOk THEN [res |-> "restored", sent |-> TRUE]
  ELSE [res |-> "fallthrough", sent |-> TRUE]

\* The tokens self.api holds after a restore that was accepted.
RestoredTokens(config) ==
  Tokens(Num(PyInt(config.v["gsfId"]).val),
         config.v["authSubToken"],
         Get(config, "deviceCheckinConsistencyToken", PyNone),
         Get(config, "deviceConfigToken", PyNone),
         Get(config, "dfeCookie", PyNone))

\* login_anonymous with force_new false: restore from the cache, else fresh
RestoreOrFresh(cl, tr0, restoreOk, fresh) ==
  LET config == _load_config(cl.cfgFile)
      rp == RestorePath(config, restoreOk)
      tr1 == [tr0 EXCEPT !.cacheRead = TRUE,
                         !.reqs = IF rp.sent
                                  THEN <<LoginReq("restore", rp.res = "restored",
                                                  IF rp.res = "restored"
                                                  THEN RestoredTokens(config)
                                                  ELSE cl.apiTok)>>
                                  ELSE <<>>]
  IN CASE rp.res = "restored" ->
            [cl |-> [cl EXCEPT !.logged_in = TRUE,
                               !.apiTok = RestoredTokens(config)],
             trace |-> tr1]
       [] rp.res = "raised" ->
            [cl |-> cl, trace |-> [tr1 EXCEPT !.raised = "restore"]]
       [] rp.res = "fallthrough" ->
            FreshLogin(cl, tr1, "anonymous", fresh)

\* Mutant of login_anonymous: force_new is ignored.
login_anonymousIgnoresForceNew(cl, force_new, restoreOk, fresh) ==
  RestoreOrFresh(cl,
                 StartTrace(cl, IF force_new THEN "anonymous_force" ELSE "anonymous"),
                 restoreOk, fresh)

login_anonymous(cl, force_new, restoreOk, fresh) ==
  LET tr0 == StartTrace(cl, IF force_new THEN "anonymous_force" ELSE "anonymous")
  IN IF force_new THEN FreshLogin(cl, tr0, "anonymous", fresh)
     ELSE RestoreOrFresh(cl, tr0, restoreOk, fresh)

login(cl, fresh) == FreshLogin(cl, StartTrace(cl, "login"), "password", fresh)


(***************************************************************************)
(* Pagination/dedup driver: MobilePlayAPI.search                           *)
(***************************************************************************)
max_retries == 3
BackoffUnit == 5

\* Mutant of wait_time: the wait is attempt * 5.
wait_timeFromZero(att) == att * BackoffUnit

\* wait_time = (attempt + 1) * 5
wait_time(att) == (att + 1) * BackoffUnit

\* "429" in str(e)
IsRateLimit(msg) == Contains(msg, <<"4", "2", "9">>)

RECURSIVE DedupAdd(_, _, _, _)

\* Mutant of AddNew: the new record is put in front (all_apps.insert(0, app)).
AddNewInFront(all, seen, apps, n) ==
  IF Len(all) + 1 >= n
  THEN [raised |-> FALSE, all |-> <<apps[1]>> \o all,
        seen |-> seen \cup {apps[1].appId}]
  ELSE DedupAdd(<<apps[1]>> \o all, seen \cup {apps[1].appId}, Tail(apps), n)

\* seen_ids.add(app_id); all_apps.append(app); if len(all_apps) >= n_hits: break
AddNew(all, seen, apps, n) ==
  IF Len(all) + 1 >= n
  THEN [raised |-> FALSE, all |-> Append(all, apps[1]),
        seen |-> seen \cup {apps[1].appId}]
  ELSE DedupAdd(Append(all, apps[1]), seen \cup {apps[1].appId}, Tail(apps), n)

\* Mutant of DedupAdd: the test "app_id not in seen_ids" is left out.
RECURSIVE DedupAddNoSeenTest(_, _, _, _)
DedupAddNoSeenTest(all, seen, apps, n) ==
  IF Len(apps) = 0 THEN [raised |-> FALSE, all |-> all, seen |-> seen]
  ELSE IF ~Truthy(apps[1].appId) THEN DedupAddNoSeenTest(all, seen, Tail(apps), n)
  ELSE IF ~Hashable(apps[1].appId)
       THEN [raised |-> TRUE, all |-> all, seen |-> seen]
  ELSE IF Len(all) + 1 >= n
       THEN [raised |-> FALSE, all |-> Append(all, apps[1]),
             seen |-> seen \cup {apps[1].appId}]
  ELSE DedupAddNoSeenTest(Append(all, apps[1]), seen \cup {apps[1].appId},
                          Tail(apps), n)

\* for app in apps: the dedup loop.  [raised, all, seen]
DedupAdd(all, seen, apps, n) ==
  IF Len(apps) = 0 THEN [raised |-> FALSE, all |-> all, seen |-> seen]
  ELSE IF ~Truthy(apps[1].appId) THEN DedupAdd(all, seen, Tail(apps), n)
  ELSE IF ~Hashable(apps[1].appId)
       THEN [raised |-> TRUE, all |-> all, seen |-> seen]
  ELSE IF apps[1].appId \in seen THEN DedupAdd(all, seen, Tail(apps), n)
  ELSE AddNew(all, seen, apps, n)

\* return all_apps[:n_hits]
Returned(all, n) == Slice(all, n)

\* The locals of search() as one record.
Locals == [all_apps |-> all_apps, seen_ids |-> seen_ids, next_page |-> next_page]

\* How an iteration of the while loop ends: "continue" (the while test holds
\* again), "return" (with ret) or "raise".
LoopEnd(st, status, n) ==
  [status |-> status, st |-> st,
   ret |-> IF status = "return" THEN Returned(st.all_apps, n) ELSE <<>>]

\* if not next_page: break; then the while test
AfterDedup(dd, next, n) ==
  LoopEnd([all_apps |-> dd.all, seen_ids |-> dd.seen, next_page |-> next],
          IF dd.raised THEN "raise"
          ELSE IF ~Truthy(next) THEN "return"
          ELSE IF Len(dd.all) < n THEN "continue"
          ELSE "return",
          n)

AfterExtract(st, ex, n) ==
  IF ex.raised THEN LoopEnd(st, "raise", n)
  ELSE AfterDedup(DedupAdd(st.all_apps, st.seen_ids, ex.apps, n), ex.next, n)

\* Mutant of LoopBody: n_hits is not applied to the records of a page (no
\* break in the dedup loop, and all_apps returned whole).
LoopBodyNoLimit(st, data, n) ==
  IF IsNone(data) \/ ~Truthy(data)
  THEN [status |-> "return", st |-> st, ret |-> st.all_apps]
  ELSE LET ex == _extract_apps_from_response(data)
           dd == DedupAdd(st.all_apps, st.seen_ids, ex.apps,
                          Len(st.all_apps) + Len(ex.apps) + 1)
           lb == AfterDedup(dd, ex.next, n)
       IN IF ex.raised THEN LoopEnd(st, "raise", n)
          ELSE [lb EXCEPT !.ret = IF lb.status = "return" THEN dd.all ELSE <<>>]

\* The rest of one iteration of the while loop once the retry loop has left
\* data: if data is None: break; if not data: break; extract; dedup; ...
LoopBody(st, data, n) ==
  IF IsNone(data) \/ ~Truthy(data) THEN LoopEnd(st, "return", n)
  ELSE AfterExtract(st, _extract_apps_from_response(data), n)

\* Mutant of RequestArgs: every request carries the query.
RequestArgsAlwaysQuery(np, q) == [kind |-> "query", arg |-> q]

\* The arguments of the next request: the cursor if there is one, else the query
RequestArgs(np, q) ==
  IF Truthy(np) THEN [kind |-> "nextPageUrl", arg |-> np]
  ELSE [kind |-> "query", arg |-> q]


(***************************************************************************)
(* The environment: what the remote client and the file system can hold.   *)
(***************************************************************************)
MaxHits == 4
MaxRequests == 4

S(c) == Str(<<c>>)
Cur1 == Str(<<"c", "1">>)
Cur2 == Str(<<"c", "2">>)

AppDoc(c) == Dict([id |-> S(c), title |-> S(c)])
Container(cur) == Dict([nextPageUrl |-> cur])
Cluster(apps) == Dict([subItem |-> List(apps)])
TopDoc(cur, clusters) ==
  Dict([containerMetadata |-> Container(cur), subItem |-> List(clusters)])

\* apps a, b in a cluster, cursor c1
PageAB == List(<<TopDoc(Cur1, <<Cluster(<<AppDoc("a"), AppDoc("b")>>)>>)>>)
\* apps b, c in a cluster, cursor c2
PageBC == List(<<TopDoc(Cur2, <<Cluster(<<AppDoc("b"), AppDoc("c")>>)>>)>>)
\* three direct documents, two of which share an identifier; no cursor
PageAAD == List(<<AppDoc("a"), AppDoc("a"), AppDoc("d")>>)
\* a cursor and no app at all
PageCursorOnly == List(<<Dict([containerMetadata |-> Container(Cur1)])>>)
\* an app document whose details field is null
PageNullDetails == List(<<Dict([id |-> S("e"), details |-> PyNone])>>)
\* an app document whose identifier is a list
PageListId == List(<<Dict([id |-> List(<<S("x")>>)])>>)

Pages ==
  {PageAB, PageBC, PageAAD, PageCursorOnly, EmptyList, PyNone,
   PageNullDetails, PageListId}

\* The pages of well-formed documents.
WellFormedPages == {PageAB, PageBC, PageAAD, PageCursorOnly}

Queries == {S("q")}
NHits == (0 - 1)..MaxHits

\* The messages of the exceptions the remote search can raise.
ErrorMessages ==
  {<<"4", "2", "9">>, <<"H", "T", "T", "P", " ", "4", "2", "9", "!">>,
   <<"5", "0", "0">>, <<"4", "2">>, <<>>}

\* The token sets the remote client issues on a fresh login.
TokA == Tokens(Num(11), S("A"), S("k"), PyNone, PyNone)
FreshTokens == {TokA}
\* Tokens saved by an earlier run.
TokOld == Tokens(Num(22), S("B"), PyNone, PyNone, S("d"))
\* The answer to a fresh login: tokens, or PyNone when the request fails.
FreshAnswers == FreshTokens \cup {PyNone}

\* What the credential file can hold when the client is constructed.
CacheFiles ==
  {FileAbsent,
   FileCorrupt,
   FileJson(List(<<Num(1)>>)),
   FileJson(EmptyDict),
   FileJson(Dict([gsfId |-> Num(11)])),
   FileJson(Dict([gsfId |-> S("x"), authSubToken |-> S("A")])),
   FileJson(Dict([gsfId |-> Str(<<"3", "3">>), authSubToken |-> S("C")])),
   _save_config(TokOld)}

(***************************************************************************)
(* Init: a client just constructed (__init__), no call made yet.           *)
(***************************************************************************)
\* No search() call: its locals and histories are empty.
NoSearch ==
  /\ pc = "idle"
  /\ query = EmptyStr
  /\ n_hits = 0
  /\ all_apps = <<>>
  /\ seen_ids = {}
  /\ next_page = PyNone
  /\ attempt = 0
  /\ reqLog = <<>>
  /\ pagesRecv = <<>>
  /\ outcome = "none"
  /\ result = <<>>

\* No direct call of _parse_app or _extract_apps_from_response was made.
NotCalled == [done |-> FALSE]

NoCall == call_arg = PyNone /\ call_ret = NotCalled

\* A client just constructed, whatever the credential file holds.
NewClient ==
  /\ logged_in = FALSE
  /\ apiTok = NoTokens
  /\ loginTrace = NoTrace
  /\ login_done = FALSE
  /\ default_api = "None"
  /\ NoSearch

Init ==
  /\ cfgFile \in CacheFiles
  /\ NewClient
  /\ NoCall

Client == [logged_in |-> logged_in, cfgFile |-> cfgFile, apiTok |-> apiTok]

SetClient(lg) ==
  /\ logged_in' = lg.cl.logged_in
  /\ cfgFile' = lg.cl.cfgFile
  /\ apiTok' = lg.cl.apiTok
  /\ loginTrace' = lg.trace
  /\ login_done' = (login_done \/ \E i \in 1..Len(lg.trace.reqs) : lg.trace.reqs[i].ok)

\* The histories (loginTrace, reqLog, pagesRecv, outcome, result) and the
\* locals of search() describe the last call made on the client: a call
\* starts by forgetting those of the call before.

ForgetSearch ==
  /\ pc' = "idle"
  /\ query' = EmptyStr
  /\ n_hits' = 0
  /\ all_apps' = <<>>
  /\ seen_ids' = {}
  /\ next_page' = PyNone
  /\ attempt' = 0
  /\ reqLog' = <<>>
  /\ pagesRecv' = <<>>
  /\ outcome' = "none"
  /\ result' = <<>>

\* api.login_anonymous(force_new)
LoginAnonymous(force_new, restoreOk, fresh) ==
  /\ pc = "idle"
  /\ SetClient(login_anonymous(Client, force_new, restoreOk, fresh))
  /\ ForgetSearch
  /\ UNCHANGED callVars

\* api.login(email, password)
Login(fresh) ==
  /\ pc = "idle"
  /\ SetClient(login(Client, fresh))
  /\ ForgetSearch
  /\ UNCHANGED callVars

\* The entry of reqLog for the request search() sends now.
LogEntry(res, wait) ==
  LET a == RequestArgs(next_page, query)
  IN [kind |-> a.kind, arg |-> a.arg, page |-> Len(pagesRecv) + 1,
      attempt |-> attempt, res |-> res, wait |-> wait]

\* The state after the rest of the iteration, lb = LoopBody(...)
Continue(lb) ==
  /\ all_apps' = lb.st.all_apps
  /\ seen_ids' = lb.st.seen_ids
  /\ next_page' = lb.st.next_page
  /\ attempt' = IF lb.status = "continue" THEN 0 ELSE attempt
  /\ pc' = IF lb.status = "continue" THEN "request" ELSE "idle"
  /\ outcome' = CASE lb.status = "continue" -> "none"
                  [] lb.status = "return" -> "returned"
                  [] lb.status = "raise" -> "raised_loop"
  /\ result' = lb.ret

\* search(): after "if not self._logged_in: self.login_anonymous()", lg the
\* client and trace that leaves: the locals are set and the while test made.
SearchStart(q, n, lg) ==
  /\ SetClient(lg)
  /\ query' = q
  /\ n_hits' = n
  /\ all_apps' = <<>>
  /\ seen_ids' = {}
  /\ next_page' = PyNone
  /\ attempt' = 0
  /\ reqLog' = <<>>
  /\ pagesRecv' = <<>>
  /\ IF ~lg.cl.logged_in
     THEN pc' = "idle" /\ outcome' = "raised_login" /\ result' = <<>>
     ELSE IF 0 < n
     THEN pc' = "request" /\ outcome' = "none" /\ result' = <<>>
     ELSE pc' = "idle" /\ outcome' = "returned" /\ result' = Returned(<<>>, n)

\* api.search(query, n_hits): up to the first request of the loop
SearchCall(q, n) ==
  /\ pc = "idle"
  /\ IF logged_in
     THEN SearchStart(q, n, [cl |-> Client, trace |-> NoTrace])
     ELSE \E r \in BOOLEAN, t \in FreshAnswers :
            SearchStart(q, n, login_anonymous(Client, FALSE, r, t))
  /\ UNCHANGED callVars

\* The remote client answers the request with data.
RequestOk(data) ==
  /\ pc = "request"
  /\ Len(reqLog) < MaxRequests
  /\ reqLog' = Append(reqLog, LogEntry("ok", 0))
  /\ pagesRecv' = Append(pagesRecv, data)
  /\ Continue(LoopBody(Locals, data, n_hits))
  /\ UNCHANGED <<clientVars, callVars, query, n_hits>>

\* The remote client raises a rate-limit error: wait, then retry or give up.
RequestRateLimited(msg) ==
  /\ pc = "request"
  /\ Len(reqLog) < MaxRequests
  /\ IsRateLimit(msg)
  /\ reqLog' = Append(reqLog, LogEntry("429", wait_time(attempt)))
  /\ IF attempt + 1 < max_retries
     THEN /\ attempt' = attempt + 1
          /\ UNCHANGED <<pc, all_apps, seen_ids, next_page, outcome, result>>
     ELSE Continue(LoopBody(Locals, PyNone, n_hits))
  /\ UNCHANGED <<clientVars, callVars, query, n_hits, pagesRecv>>

\* Mutant of RequestError: the error is taken for a rate limit and retried.
RequestErrorRetried(msg) ==
  /\ pc = "request"
  /\ Len(reqLog) < MaxRequests
  /\ ~IsRateLimit(msg)
  /\ reqLog' = Append(reqLog, LogEntry("err", 0))
  /\ IF attempt + 1 < max_retries
     THEN /\ attempt' = attempt + 1
          /\ UNCHANGED <<pc, all_apps, seen_ids, next_page, outcome, result>>
     ELSE Continue(LoopBody(Locals, PyNone, n_hits))
  /\ UNCHANGED <<clientVars, callVars, query, n_hits, pagesRecv>>

\* The remote client raises another error: the retry loop is left at once.
RequestError(msg) ==
  /\ pc = "request"
  /\ Len(reqLog) < MaxRequests
  /\ ~IsRateLimit(msg)
  /\ reqLog' = Append(reqLog, LogEntry("err", 0))
  /\ Continue(LoopBody(Locals, PyNone, n_hits))
  /\ UNCHANGED <<clientVars, callVars, query, n_hits, pagesRecv>>

\* The answers of the remote client that a login_anonymous call can meet.
RestoreAnswers(force_new) == IF force_new THEN {FALSE} ELSE BOOLEAN

Next ==
  \/ \E f \in BOOLEAN : \E r \in RestoreAnswers(f), t \in FreshAnswers :
       LoginAnonymous(f, r, t)
  \/ \E t \in FreshAnswers : Login(t)
  \/ \E q \in Queries, n \in NHits : SearchCall(q, n)
  \/ \E d \in Pages : RequestOk(d)
  \/ \E m \in ErrorMessages : RequestRateLimited(m)
  \/ \E m \in ErrorMessages : RequestError(m)

Spec == Init /\ [][Next]_vars


(***************************************************************************)
(* All the public operations of one client: login_anonymous, login, search *)
(* and details, and the module-level search on the default client.  The    *)
(* histories of the requests (reqLog, pagesRecv) are left out here, so the *)
(* state of a call is finite without a bound on the number of requests.    *)
(*                                                                         *)
(* The model follows one client.  While _default_api is None that client   *)
(* is one the caller constructed; the module-level search then constructs  *)
(* a new client, which the model follows when the client it has is in the  *)
(* state of a new one.                                                     *)
(***************************************************************************)
\* The remote client answers the search request with data.
PageAnswer(data) ==
  /\ pc = "request"
  /\ Continue(LoopBody(Locals, data, n_hits))
  /\ UNCHANGED <<clientVars, callVars, query, n_hits, reqLog, pagesRecv>>

\* The remote client raises a rate-limit error: wait, then retry or give up.
RateLimitAnswer(msg) ==
  /\ pc = "request"
  /\ IsRateLimit(msg)
  /\ IF attempt + 1 < max_retries
     THEN /\ attempt' = attempt + 1
          /\ UNCHANGED <<pc, all_apps, seen_ids, next_page, outcome, result>>
     ELSE Continue(LoopBody(Locals, PyNone, n_hits))
  /\ UNCHANGED <<clientVars, callVars, query, n_hits, reqLog, pagesRecv>>

\* The remote client raises another error: the retry loop is left at once.
ErrorAnswer(msg) ==
  /\ pc = "request"
  /\ ~IsRateLimit(msg)
  /\ Continue(LoopBody(Locals, PyNone, n_hits))
  /\ UNCHANGED <<clientVars, callVars, query, n_hits, reqLog, pagesRecv>>

\* The login the module-level search makes on the client it has just made.
ModuleLogin(lg) == [lg EXCEPT !.trace.call = "anonymous_module"]

\* The module-level search(query, n_hits): the default client is made and
\* logged in on the first call, then its search is called.
ModuleSearch(q, n) ==
  /\ pc = "idle"
  /\ IF default_api = "None"
     THEN /\ ~logged_in
          /\ apiTok = NoTokens
          /\ \E r \in BOOLEAN, t \in FreshAnswers :
               SearchStart(q, n, ModuleLogin(login_anonymous(Client, FALSE, r, t)))
     ELSE IF logged_in
     THEN SearchStart(q, n, [cl |-> Client, trace |-> NoTrace])
     ELSE \E r \in BOOLEAN, t \in FreshAnswers :
            SearchStart(q, n, login_anonymous(Client, FALSE, r, t))
  /\ default_api' = "client"
  /\ UNCHANGED <<call_arg, call_ret>>

\* What the remote client can answer to details(): a document, or an error.
Packages == {S("p")}
DetailsAnswers == {AppDoc("p"), PyNone}

\* details(): after "if not self._logged_in: self.login_anonymous()", lg the
\* client and trace that leaves: the request is sent if the login did not raise.
DetailsStart(p, lg) ==
  /\ SetClient(lg)
  /\ query' = p
  /\ n_hits' = 0
  /\ all_apps' = <<>>
  /\ seen_ids' = {}
  /\ next_page' = PyNone
  /\ attempt' = 0
  /\ reqLog' = <<>>
  /\ pagesRecv' = <<>>
  /\ result' = <<>>
  /\ IF lg.cl.logged_in
     THEN pc' = "details" /\ outcome' = "none"
     ELSE pc' = "idle" /\ outcome' = "raised_login"

\* api.details(package_name): up to the request
DetailsCall(p) ==
  /\ pc = "idle"
  /\ IF logged_in
     THEN DetailsStart(p, [cl |-> Client, trace |-> NoTrace])
     ELSE \E r \in BOOLEAN, t \in FreshAnswers :
            DetailsStart(p, login_anonymous(Client, FALSE, r, t))
  /\ UNCHANGED callVars

\* The remote client answers the details request: the document is returned
\* as it is, an error is raised to the caller.
DetailsAnswer(ans) ==
  /\ pc = "details"
  /\ pc' = "idle"
  /\ outcome' = IF IsNone(ans) THEN "raised_details" ELSE "returned"
  /\ result' = IF IsNone(ans) THEN <<>> ELSE <<ans>>
  /\ UNCHANGED <<clientVars, callVars, query, n_hits, all_apps, seen_ids,
                 next_page, attempt, reqLog, pagesRecv>>

\* The remote client answers the request that is waiting.
AnswerStep ==
  \/ \E d \in Pages : PageAnswer(d)
  \/ \E m \in ErrorMessages : RateLimitAnswer(m)
  \/ \E m \in ErrorMessages : ErrorAnswer(m)
  \/ \E a \in DetailsAnswers : DetailsAnswer(a)

ClientNext ==
  \/ \E f \in BOOLEAN : \E r \in RestoreAnswers(f), t \in FreshAnswers :
       LoginAnonymous(f, r, t)
  \/ \E t \in FreshAnswers : Login(t)
  \/ \E q \in Queries, n \in NHits : SearchCall(q, n)
  \/ \E q \in Queries, n \in NHits : ModuleSearch(q, n)
  \/ \E p \in Packages : DetailsCall(p)
  \/ AnswerStep

\* The calls to the remote client are blocking: a request that was sent is
\* answered, by data or by an error.
ClientSpec == Init /\ [][ClientNext]_vars /\ WF_vars(AnswerStep)


(***************************************************************************)
(* Direct calls of the response extractor.  One call is made on a response *)
(* drawn from the shapes the remote service can send: top-level documents  *)
(* holding clusters, clusters holding app documents, a cursor possible in  *)
(* the containerMetadata of documents and clusters.                        *)
(***************************************************************************)
MaxDocs == 2
MaxClusters == 2
MaxApps == 2

\* A field that the document does not have.
Absent == [ty |-> "absent"]

\* The dict entry k: x, or nothing when x is absent.
Opt(k, x) == IF x.ty = "absent" THEN EmptyMap ELSE (k :> x)

\* The sequences over S of length at most n.
SeqsUpTo(set, n) == UNION {[1..k -> set] : k \in 0..n}

\* A subItem field: absent, or a list of at most n of the nodes.
SubItemFields(nodes, n) == {Absent} \cup {List(q) : q \in SeqsUpTo(nodes, n)}

\* containerMetadata: absent, with a cursor, with an empty cursor.
ContainerFields(cur) == {Absent, Container(cur), Container(EmptyStr)}

\* The nodes with these containerMetadata, id and subItem fields.
Nodes(containers, ids, subs) ==
  {Dict(Opt("containerMetadata", c) @@ Opt("id", i) @@ Opt("subItem", u)) :
     c \in containers, i \in ids, u \in subs}

\* Third level: an app document, a node without id, a node with an id that
\* holds sub-items itself.
AppNodes ==
  {AppDoc("a"),
   Dict([title |-> S("n")]),
   Dict([id |-> S("g"), subItem |-> List(<<AppDoc("h")>>)])}

\* Second level: clusters; also a cluster that is no dict, and one whose
\* containerMetadata is null.
ClusterNodes(maxApps) ==
  Nodes(ContainerFields(Cur2), {Absent, S("k")}, SubItemFields(AppNodes, maxApps))
  \cup {S("x"), Dict([containerMetadata |-> PyNone])}

\* First level: the documents of a response.
DocNodes(maxClusters, maxApps) ==
  Nodes(ContainerFields(Cur1), {Absent, S("d")},
        SubItemFields(ClusterNodes(maxApps), maxClusters))

\* Responses: one document of several clusters, one document of one cluster
\* of several apps, or several documents of clusters without apps; also a
\* response with a null document and an app document whose details are null.
Responses(maxDocs, maxClusters, maxApps) ==
  {List(<<d>>) : d \in DocNodes(maxClusters, 1) \cup DocNodes(1, maxApps)}
  \cup {List(q) : q \in SeqsUpTo(DocNodes(1, 0), maxDocs)}
  \cup {List(<<PyNone, TopDoc(Cur1, <<Cluster(<<PageNullDetails.v[1]>>)>>)>>)}

\* _extract_apps_from_response(call_arg) is called.
ExtractCall ==
  /\ ~call_ret.done
  /\ call_ret' = [done |-> TRUE, r |-> _extract_apps_from_response(call_arg)]
  /\ UNCHANGED <<clientVars, searchVars, default_api, call_arg>>

ExtractInit ==
  /\ cfgFile = FileAbsent
  /\ NewClient
  /\ call_arg \in Responses(MaxDocs, MaxClusters, MaxApps)
  /\ call_ret = NotCalled

ExtractSpec == ExtractInit /\ [][ExtractCall]_vars


(***************************************************************************)
(* Direct calls of the record normalizer.  One call is made on a raw       *)
(* document (a dict) in which every field is absent, well formed, null or  *)
(* of another type.                                                        *)
(***************************************************************************)
\* Values of an unexpected type: null, a string, a number, a list, a dict.
Junk == {PyNone, S("s"), Num(5), List(<<Num(1)>>), Dict([k |-> Num(1)])}

\* Well-formed fields: details (developer dev@x), rating, images (the icon
\* is the second one).
WellDetails ==
  Dict([appDetails |->
          Dict([developerName |-> S("D"), numDownloads |-> S("9"),
                developerEmail |-> Str(<<"d", "e", "v", "@", "x">>)])])
WellRating == Dict([starRating |-> Num(4)])
WellImages ==
  List(<<Dict([imageType |-> Num(1), imageUrl |-> S("v")]),
         Dict([imageType |-> Num(4), imageUrl |-> S("u")])>>)
\* A description longer than the summary.
LongText == Str([i \in 1..(SummaryLen + 1) |-> "x"])

DetailsFields ==
  {Absent, WellDetails, EmptyDict} \cup Junk
  \cup {Dict([appDetails |-> x]) :
          x \in Junk \cup {EmptyDict, Dict([developerEmail |-> Num(5)]),
                           Dict([developerEmail |-> PyNone])}}

RatingFields == {Absent, WellRating, EmptyDict} \cup Junk

ImageFields ==
  {Absent, WellImages, EmptyList, EmptyDict, List(<<Dict([imageType |-> Num(4)])>>)}
  \cup Junk \cup {List(<<x>>) : x \in Junk \ {Dict([k |-> Num(1)])}}

\* The micros of an offer: integers, and strings of decimal digits, of other
\* characters, signed, empty, and of digits that are not decimal.
MicrosInts == {Num(0), Num(1), Num(1500000), Num(0 - 5)}
MicrosStrings ==
  {Str(<<"1", "5", "0", "0", "0", "0", "0">>), S("0"), Str(<<"0", "0", "7">>),
   Str(<<"a", "b", "c">>), Str(<<"-", "5">>), Str(<<"+", "5">>), EmptyStr,
   S(SuperscriptTwo), Str(<<"1", SuperscriptTwo>>)}
MicrosFields == {Absent} \cup MicrosInts \cup MicrosStrings

\* The offers whose micros is absent, an integer or a string.
PricedOffers ==
  {Dict(Opt("micros", m)) : m \in MicrosFields}
  \cup {List(<<Dict(Opt("micros", m))>>) : m \in MicrosFields}

OfferFields ==
  {Absent, EmptyList} \cup PricedOffers \cup Junk
  \cup {List(<<Dict([micros |-> x])>>) : x \in Junk \ {S("s"), Num(5)}}

HtmlFields == {Absent, LongText, S("h"), List(<<Num(1), Num(2)>>)} \cup Junk

ShortFields == {Absent, S("z")}

\* The raw document with these fields.
RawDoc(i, di, t, d, g, im, o, h, sh) ==
  Dict(Opt("id", i) @@ Opt("docid", di) @@ Opt("title", t) @@ Opt("details", d)
       @@ Opt("aggregateRating", g) @@ Opt("image", im) @@ Opt("offer", o)
       @@ Opt("descriptionHtml", h) @@ Opt("descriptionShort", sh))

\* Of a field: absent, well formed, or null.
Few(well) == {Absent, well, PyNone}

\* Every field over all its values with the other fields absent, and every
\* combination of the fields absent, well formed or null.
RawDocuments ==
  {RawDoc(i, di, t, Absent, Absent, Absent, Absent, Absent, Absent) :
     i \in {Absent, S("a"), EmptyStr}, di \in {Absent, S("b")},
     t \in {Absent, S("a")} \cup Junk}
  \cup {RawDoc(S("a"), Absent, Absent, d, Absent, Absent, Absent, Absent, Absent) :
          d \in DetailsFields}
  \cup {RawDoc(S("a"), Absent, Absent, Absent, g, Absent, Absent, Absent, Absent) :
          g \in RatingFields}
  \cup {RawDoc(S("a"), Absent, Absent, Absent, Absent, im, Absent, Absent, Absent) :
          im \in ImageFields}
  \cup {RawDoc(S("a"), Absent, t, Absent, Absent, Absent, o, Absent, Absent) :
          t \in {Absent, S("a")}, o \in OfferFields}
  \cup {RawDoc(S("a"), Absent, Absent, Absent, Absent, Absent, Absent, h, sh) :
          h \in HtmlFields, sh \in ShortFields}
  \cup {RawDoc(S("a"), Absent, S("a"), d, g, im, o, h, sh) :
          d \in Few(WellDetails), g \in Few(WellRating), im \in Few(WellImages),
          o \in Few(List(<<Dict([micros |-> Num(1500000)])>>)),
          h \in Few(LongText), sh \in ShortFields}

\* _parse_app(call_arg) is called.
ParseCall ==
  /\ ~call_ret.done
  /\ call_ret' = [done |-> TRUE, r |-> _parse_app(call_arg)]
  /\ UNCHANGED <<clientVars, searchVars, default_api, call_arg>>

ParseInit ==
  /\ cfgFile = FileAbsent
  /\ NewClient
  /\ call_arg \in RawDocuments
  /\ call_ret = NotCalled

ParseSpec == ParseInit /\ [][ParseCall]_vars


(***************************************************************************)
(* What the claims speak of, stated on the histories.                      *)
(***************************************************************************)
\* The records extracted from the pages, in page order.
AppsOf(ex) == IF ex.raised THEN <<>> ELSE ex.apps

RECURSIVE RecordsOf(_)
RecordsOf(pages) ==
  IF Len(pages) = 0 THEN <<>>
  ELSE (IF Truthy(pages[1]) THEN AppsOf(_extract_apps_from_response(pages[1]))
        ELSE <<>>) \o RecordsOf(Tail(pages))

\* Whether recs[i] is the first record of recs with its identifier.
IsFirstOccurrence(recs, i) ==
  \A j \in 1..(i - 1) : ~PyEq(recs[j].appId, recs[i].appId)

\* recs without the records whose identifier occurred earlier.
RECURSIVE FirstOccurrencesFrom(_, _)
FirstOccurrencesFrom(recs, i) ==
  IF i > Len(recs) THEN <<>>
  ELSE (IF IsFirstOccurrence(recs, i) THEN <<recs[i]>> ELSE <<>>)
       \o FirstOccurrencesFrom(recs, i + 1)

FirstOccurrences(recs) == FirstOccurrencesFrom(recs, 1)

\* The first n elements of q (none when n <= 0).
FirstN(q, n) == [i \in 1..(IF n < Len(q) THEN (IF n < 0 THEN 0 ELSE n) ELSE Len(q)) |-> q[i]]

\* What a search that received these pages is to return.
ExpectedResult(pages, n) == FirstN(FirstOccurrences(RecordsOf(pages)), n)

PairwiseDistinctIds(recs) ==
  \A i, j \in 1..Len(recs) : i # j => ~PyEq(recs[i].appId, recs[j].appId)

\* C1: a search call with n_hits >= 0 that returns, returns at most n_hits
\* records, whatever the remote client answered.
C1_ResultLengthBounded ==
  (outcome = "returned" /\ n_hits >= 0) => Len(result) <= n_hits

\* C1 witness: a page of two records was received with n_hits = 1.
C1_Witness ==
  /\ outcome = "returned"
  /\ n_hits = 1
  /\ pagesRecv = <<PageAB>>
  /\ Len(result) = 1

\* C2: at every point of the loop the accumulated records have pairwise
\* distinct identifiers, each in seen_ids; so has the list returned.
C2_NoDuplicateIds ==
  /\ PairwiseDistinctIds(all_apps)
  /\ \A i \in 1..Len(all_apps) : all_apps[i].appId \in seen_ids
  /\ outcome = "returned" => PairwiseDistinctIds(result)

\* C2 witness: identifier a came twice in one page and again from an earlier
\* page, and the call returned three records.
C2_Witness ==
  /\ outcome = "returned"
  /\ pagesRecv = <<PageAB, PageAAD>>
  /\ Len(result) = 3

\* C3: the list returned is the records of the pages received, in page and
\* extraction order, first occurrences only, cut to n_hits.
C3_ResultIsDedupedPrefix ==
  outcome = "returned" => result = ExpectedResult(pagesRecv, n_hits)

\* C3 witness: a page of 3 documents of which 2 share an identifier gave 2
\* records, the first-seen ones in order.
C3_Witness ==
  /\ outcome = "returned"
  /\ pagesRecv = <<PageAAD>>
  /\ Len(result) = 2
  /\ result[1].appId = S("a")
  /\ result[2].appId = S("d")


\* What a page holds, read off the raw data whether or not its documents
\* are well formed.
SubItemsOf(node) ==
  IF IsDict(node) /\ HasKey(node, "subItem") /\ IsList(node.v["subItem"])
  THEN node.v["subItem"].v ELSE <<>>

RawCursorOf(node) ==
  IF IsDict(node) /\ HasKey(node, "containerMetadata")
     /\ IsDict(node.v["containerMetadata"])
  THEN Get(node.v["containerMetadata"], "nextPageUrl", PyNone)
  ELSE PyNone

RawDocs(page) == IF IsList(page) THEN page.v ELSE <<>>

HasId(node) == IsDict(node) /\ Truthy(Get(node, "id", PyNone))

\* Whether the page carries a continuation cursor.
PageHasCursor(page) ==
  \E i \in 1..Len(RawDocs(page)) :
    \/ Truthy(RawCursorOf(RawDocs(page)[i]))
    \/ \E j \in 1..Len(SubItemsOf(RawDocs(page)[i])) :
         Truthy(RawCursorOf(SubItemsOf(RawDocs(page)[i])[j]))

\* The identifiers of the app documents of the page.
PageIds(page) ==
  {RawDocs(page)[i].v["id"] :
     i \in {k \in 1..Len(RawDocs(page)) :
              HasId(RawDocs(page)[k]) /\ Len(SubItemsOf(RawDocs(page)[k])) = 0}}
  \cup UNION {UNION {{SubItemsOf(c)[k].v["id"] :
                        k \in {m \in 1..Len(SubItemsOf(c)) : HasId(SubItemsOf(c)[m])}} :
                     c \in {SubItemsOf(RawDocs(page)[i])[j] :
                              j \in 1..Len(SubItemsOf(RawDocs(page)[i]))}} :
              i \in 1..Len(RawDocs(page))}

AllPageIds(pages) == UNION {PageIds(pages[i]) : i \in 1..Len(pages)}

\* Every request of the call was answered with a non-empty page; every page
\* but the last carries a cursor, the last carries none; the pages hold
\* fewer than n_hits distinct identifiers.
CursorChainBelowLimit ==
  /\ Len(pagesRecv) > 0
  /\ \A i \in 1..Len(reqLog) : reqLog[i].res = "ok"
  /\ \A i \in 1..Len(pagesRecv) : Truthy(pagesRecv[i])
  /\ \A i \in 1..(Len(pagesRecv) - 1) : PageHasCursor(pagesRecv[i])
  /\ ~PageHasCursor(pagesRecv[Len(pagesRecv)])
  /\ Cardinality(AllPageIds(pagesRecv)) < n_hits

\* C4: on a chain of non-empty pages ended by a page without cursor, with
\* fewer than n_hits distinct identifiers, search sends one request per page,
\* stops after the last page and returns every distinct record of the pages.
C4_CursorChainReturnsAll ==
  CursorChainBelowLimit =>
    /\ pc = "idle"
    /\ outcome = "returned"
    /\ Len(reqLog) = Len(pagesRecv)
    /\ result = FirstOccurrences(RecordsOf(pagesRecv))
    /\ {result[i].appId : i \in 1..Len(result)} = AllPageIds(pagesRecv)

\* C4 on pages of well-formed documents only: there it holds.
C4_HoldsOnWellFormedPages ==
  (\A i \in 1..Len(pagesRecv) : pagesRecv[i] \in WellFormedPages)
    => C4_CursorChainReturnsAll

\* Two pages (2 records and a cursor, then 1 more record and no cursor)
\* with n_hits above the total: 3 records after exactly 2 requests.
C4_TwoPagesReached ==
  /\ CursorChainBelowLimit
  /\ pagesRecv = <<PageAB, PageAAD>>
  /\ Len(reqLog) = 2
  /\ Len(result) = 3

\* The cursor the page yielded, and the number of records accumulated once
\* the first i pages are in.
CursorOf(page) == _extract_apps_from_response(page).next
CountAfter(i) == Len(FirstOccurrences(RecordsOf(SubSeq(pagesRecv, 1, i))))

SameRequest(a, b) == a.kind = b.kind /\ PyEq(a.arg, b.arg) /\ a.page = b.page

\* C5: the first request carries the query; a request after a rate-limited
\* one repeats it; any other request follows a page that yielded a cursor
\* while fewer than n_hits records were accumulated, and carries that cursor.
C5_RequestArguments ==
  /\ Len(reqLog) >= 1 =>
       reqLog[1].kind = "query" /\ PyEq(reqLog[1].arg, query) /\ reqLog[1].page = 1
  /\ \A i \in 2..Len(reqLog) :
       IF reqLog[i - 1].res = "429"
       THEN SameRequest(reqLog[i], reqLog[i - 1])
       ELSE /\ reqLog[i - 1].res = "ok"
            /\ reqLog[i].page = reqLog[i - 1].page + 1
            /\ reqLog[i].kind = "nextPageUrl"
            /\ Truthy(CursorOf(pagesRecv[reqLog[i].page - 1]))
            /\ PyEq(reqLog[i].arg, CursorOf(pagesRecv[reqLog[i].page - 1]))
            /\ CountAfter(reqLog[i].page - 1) < n_hits
  /\ (pc = "request" /\ Len(pagesRecv) > 0) =>
       /\ Truthy(CursorOf(pagesRecv[Len(pagesRecv)]))
       /\ CountAfter(Len(pagesRecv)) < n_hits

\* C5 witness: the query, then the cursor of page 1 sent twice because the
\* first attempt was rate limited.
C5_Witness ==
  /\ Len(reqLog) = 3
  /\ reqLog[1].res = "ok" /\ reqLog[2].res = "429" /\ reqLog[3].res = "ok"
  /\ reqLog[1].kind = "query"
  /\ reqLog[2].kind = "nextPageUrl" /\ reqLog[2].arg = Cur1
  /\ reqLog[3].kind = "nextPageUrl" /\ reqLog[3].arg = Cur1

\* C6: with the session authenticated, a search call never ends with an
\* exception: it returns a list whatever the remote client answered.
C6_SearchLoopNeverRaises ==
  /\ outcome # "raised_loop"
  /\ (logged_in /\ pc = "idle" /\ Len(reqLog) > 0) => outcome = "returned"

\* The number of the attempt reqLog[i] is for its page.
AttemptNo(i) == Cardinality({j \in 1..i : reqLog[j].page = reqLog[i].page})

\* C7: the k-th rate-limited attempt for a page is followed by a wait of 5*k
\* seconds; it is retried while k < 3; no page gets more than 3 requests; after
\* 3 rate-limited attempts the call returns the records of the earlier pages.
C7_RateLimitBackoff ==
  \A i \in 1..Len(reqLog) :
    /\ AttemptNo(i) <= 3
    /\ reqLog[i].res # "429" => reqLog[i].wait = 0
    /\ reqLog[i].res = "429" =>
         /\ reqLog[i].wait = 5 * AttemptNo(i)
         /\ IF AttemptNo(i) < 3
            THEN IF i < Len(reqLog) THEN SameRequest(reqLog[i + 1], reqLog[i])
                 ELSE pc = "request"
            ELSE /\ i = Len(reqLog)
                 /\ pc = "idle"
                 /\ outcome = "returned"
                 /\ Len(pagesRecv) = reqLog[i].page - 1
                 /\ result = ExpectedResult(pagesRecv, n_hits)

\* C7 witness: after a first page, three rate-limited attempts (waits 5, 10,
\* 15) and the call returned the two records of the first page.
C7_Witness ==
  /\ Len(pagesRecv) = 1
  /\ Len(reqLog) = 4
  /\ \A i \in 2..4 : reqLog[i].res = "429"
  /\ reqLog[2].wait = 5 /\ reqLog[3].wait = 10 /\ reqLog[4].wait = 15
  /\ outcome = "returned"
  /\ Len(result) = 2

\* C8: a request failing with another error is the last request of the
\* call, which returns the records of the pages received before it.
C8_ErrorStopsSearch ==
  \A i \in 1..Len(reqLog) :
    reqLog[i].res = "err" =>
      /\ i = Len(reqLog)
      /\ pc = "idle"
      /\ outcome = "returned"
      /\ Len(pagesRecv) = reqLog[i].page - 1
      /\ result = ExpectedResult(pagesRecv, n_hits)
      /\ result = all_apps

\* C8 witness: the request for the second page failed and the two records
\* of the first page were returned.
C8_Witness ==
  /\ Len(reqLog) = 2
  /\ reqLog[2].res = "err"
  /\ pagesRecv = <<PageAB>>
  /\ outcome = "returned"
  /\ Len(result) = 2
  /\ result[1].appId = S("a") /\ result[2].appId = S("b")

\* The login requests of the last login call, by kind.
RestoreAccepted ==
  \E i \in 1..Len(loginTrace.reqs) :
    loginTrace.reqs[i].kind = "restore" /\ loginTrace.reqs[i].ok
FreshRequests ==
  {i \in 1..Len(loginTrace.reqs) : loginTrace.reqs[i].kind = "anonymous"}

\* The file holds exactly the five tokens tok.
FileHolds(tok) ==
  /\ cfgFile.kind = "json"
  /\ IsDict(cfgFile.v)
  /\ DOMAIN cfgFile.v.v = {"gsfId", "authSubToken", "deviceCheckinConsistencyToken",
                           "deviceConfigToken", "dfeCookie"}
  /\ \A k \in DOMAIN cfgFile.v.v : cfgFile.v.v[k] = tok[k]

\* C9: login_anonymous(force_new=False): accepted cached tokens mark the
\* session authenticated without a fresh request or a write; any failure of
\* the restore path falls through to a fresh request, never raising.
C9_RestoreOrFallThrough ==
  loginTrace.call = "anonymous" =>
    /\ loginTrace.raised # "restore"
    /\ RestoreAccepted =>
         /\ logged_in
         /\ FreshRequests = {}
         /\ ~loginTrace.wrote
         /\ cfgFile = loginTrace.fileBefore
    /\ ~RestoreAccepted =>
         /\ FreshRequests # {}
         /\ \A i \in FreshRequests :
              loginTrace.reqs[i].ok =>
                logged_in /\ loginTrace.wrote /\ FileHolds(loginTrace.reqs[i].tok)

\* C9 without the cache files that hold a JSON value that is not an object.
C9_HoldsOnObjectCaches ==
  (loginTrace.fileBefore.kind = "json" => ~Truthy(loginTrace.fileBefore.v)
                                          \/ IsDict(loginTrace.fileBefore.v))
    => C9_RestoreOrFallThrough

\* C10: login_anonymous(force_new=True) sends one fresh request and nothing
\* else, never reads the cache, and on success the file holds the new tokens.
C10_ForceNewAlwaysFresh ==
  loginTrace.call = "anonymous_force" =>
    /\ ~loginTrace.cacheRead
    /\ Len(loginTrace.reqs) = 1
    /\ loginTrace.reqs[1].kind = "anonymous"
    /\ loginTrace.reqs[1].ok =>
         /\ loginTrace.reqs[1].tok \in FreshTokens
         /\ apiTok = loginTrace.reqs[1].tok
         /\ FileHolds(loginTrace.reqs[1].tok)
         /\ loginTrace.wrote
         /\ logged_in
    /\ ~loginTrace.reqs[1].ok => cfgFile = loginTrace.fileBefore

\* C10 witness: the cache held the valid tokens of an earlier run, and the
\* forced login wrote the new tokens over them.
C10_Witness ==
  /\ loginTrace.call = "anonymous_force"
  /\ loginTrace.fileBefore = _save_config(TokOld)
  /\ loginTrace.reqs[1].ok
  /\ cfgFile = _save_config(TokA)

\* The cursors of a response in traversal order: for each top-level document
\* in order, its own, then those of its sub-items in order.
CursorsOfDoc(doc) ==
  <<RawCursorOf(doc)>>
  \o [j \in 1..Len(SubItemsOf(doc)) |-> RawCursorOf(SubItemsOf(doc)[j])]

RECURSIVE TraversalCursors(_)
TraversalCursors(docs) ==
  IF Len(docs) = 0 THEN <<>>
  ELSE CursorsOfDoc(docs[1]) \o TraversalCursors(Tail(docs))

\* The last non-empty value of q, none when there is none.
LastNonEmpty(q) ==
  IF \A i \in 1..Len(q) : ~Truthy(q[i]) THEN PyNone
  ELSE q[CHOOSE i \in 1..Len(q) :
           Truthy(q[i]) /\ \A j \in (i + 1)..Len(q) : ~Truthy(q[j])]

\* C11: the extractor returns as cursor the last non-empty nextPageUrl in
\* traversal order, and none for a response without any cursor.
C11_ReturnsLastCursor ==
  call_ret.done =>
    /\ ~call_ret.r.raised
    /\ call_ret.r.next = LastNonEmpty(TraversalCursors(RawDocs(call_arg)))

\* C11 for the calls that return: there the cursor is as claimed.
C11_HoldsWhenReturned ==
  (call_ret.done /\ ~call_ret.r.raised) =>
    call_ret.r.next = LastNonEmpty(TraversalCursors(RawDocs(call_arg)))

\* A cursor at the top level and an empty one below it: the outer one is
\* returned; cursors at both levels: the inner, later one is returned.
C11_OuterCursorReached ==
  /\ call_ret.done /\ ~call_ret.r.raised
  /\ TraversalCursors(RawDocs(call_arg)) = <<Cur1, EmptyStr, PyNone>>
  /\ call_ret.r.next = Cur1

C11_InnerCursorReached ==
  /\ call_ret.done /\ ~call_ret.r.raised
  /\ TraversalCursors(RawDocs(call_arg)) = <<Cur1, Cur2, PyNone>>
  /\ call_ret.r.next = Cur2

\* The nodes of the three levels of a response: the top-level documents,
\* their sub-items, the sub-items of those.
Level1(data) == {RawDocs(data)[i] : i \in 1..Len(RawDocs(data))}
SubNodes(nodes) ==
  UNION {{SubItemsOf(n)[j] : j \in 1..Len(SubItemsOf(n))} : n \in nodes}
Level2(data) == SubNodes(Level1(data))
Level3(data) == SubNodes(Level2(data))

\* A node that carries an identifier and holds no sub-items.
IsLeafWithId(node) == HasId(node) /\ Len(SubItemsOf(node)) = 0

IdsOf(nodes) == {n.v["id"] : n \in nodes}

\* The identifiers of the records a call returned.
ReturnedIds == {call_ret.r.apps[i].appId : i \in 1..Len(call_ret.r.apps)}

\* C12: the extractor returns exactly the nodes of the three levels that
\* have a non-empty id and no sub-items.
C12_CollectsExactlyLeaves ==
  (call_ret.done /\ ~call_ret.r.raised) =>
    ReturnedIds =
      IdsOf({n \in Level1(call_arg) \cup Level2(call_arg) \cup Level3(call_arg) :
               IsLeafWithId(n)})

\* C12 at the top level alone, where it holds: a document is returned as a
\* direct match if and only if it has an id and no sub-items.
C12_DirectMatchHolds ==
  (call_ret.done /\ ~call_ret.r.raised) =>
    (ReturnedIds \cap IdsOf({n \in Level1(call_arg) : HasId(n)})
       = IdsOf({n \in Level1(call_arg) : IsLeafWithId(n)}))

\* What the extractor does return: the top-level documents with an id and no
\* sub-items, and every third-level node with an id, a container or not;
\* never a second-level node.
C12_ActualCollection ==
  (call_ret.done /\ ~call_ret.r.raised) =>
    ReturnedIds =
      IdsOf({n \in Level1(call_arg) : IsLeafWithId(n)})
      \cup IdsOf({n \in Level3(call_arg) : HasId(n)})

\* A second-level node with an id and no sub-items was not returned.
C12_SecondLevelDropped ==
  /\ call_ret.done /\ ~call_ret.r.raised
  /\ \E n \in Level2(call_arg) : IsLeafWithId(n)
  /\ ReturnedIds = {}

\* A third-level node with an id that holds sub-items was returned.
C12_ThirdLevelContainerKept ==
  /\ call_ret.done /\ ~call_ret.r.raised
  /\ S("g") \in ReturnedIds

\* C13: _parse_app never raises, whatever each field of the document is.
C13_ParseNeverRaises == call_ret.done => ~call_ret.r.raised

\* The documents whose fields are all absent or of the type the code expects.
FieldIs(doc, k, ok(_)) == HasKey(doc, k) => ok(doc.v[k])
IsDictOfEmail(x) ==
  IsDict(x) /\ FieldIs(x, "developerEmail", LAMBDA e : IsStr(e))
IsDetails(x) == IsDict(x) /\ FieldIs(x, "appDetails", IsDictOfEmail)
IsImages(x) == IsList(x) /\ \A i \in 1..Len(x.v) : IsDict(x.v[i])
IsDecimalOrNum(m) == IsNum(m) \/ (IsStr(m) /\ ~Contains(m.v, <<SuperscriptTwo>>))
FirstOfferOf(o) == IF IsList(o) THEN o.v[1] ELSE o
IsOffer(o) ==
  Truthy(o) => (IsDict(FirstOfferOf(o))
                  => FieldIs(FirstOfferOf(o), "micros", IsDecimalOrNum))
IsText(x) == IsStr(x) \/ IsList(x)
WellTyped(doc) ==
  /\ FieldIs(doc, "details", IsDetails)
  /\ FieldIs(doc, "aggregateRating", IsDict)
  /\ FieldIs(doc, "image", IsImages)
  /\ FieldIs(doc, "offer", IsOffer)
  /\ FieldIs(doc, "descriptionHtml", IsText)

\* C13 on documents whose fields are absent or of the expected type: there
\* _parse_app returns a record.
C13_ReturnsOnWellTyped ==
  (call_ret.done /\ WellTyped(call_arg)) => ~call_ret.r.raised

\* A document whose fields are all present and well formed was normalized.
C13_WellFormedReached ==
  /\ call_ret.done /\ ~call_ret.r.raised
  /\ call_arg = RawDoc(S("a"), Absent, S("a"), WellDetails, WellRating, WellImages,
                       List(<<Dict([micros |-> Num(1500000)])>>), LongText, S("z"))
  /\ call_ret.r.val.developerId = Str(<<"d", "e", "v">>)
  /\ call_ret.r.val.icon = S("u")
  /\ call_ret.r.val.score = Num(4)
  /\ Len(call_ret.r.val.summary.v) = SummaryLen

\* The record of a document of which only the identifier and the title are
\* known: every other field at its default.
DefaultRecord(id, title) ==
  [appId |-> id, title |-> title, score |-> PyNone, developer |-> PyNone,
   developerId |-> PyNone, icon |-> PyNone, installs |-> PyNone,
   price |-> Float(0, 1), currency |-> Str(<<"U", "S", "D">>), free |-> TRUE,
   summary |-> PyNone]

\* C14: on a document that has only an identifier and a title, _parse_app
\* returns that appId and title and every other field at its default.
C14_IdAndTitleOnly ==
  (call_ret.done /\ DOMAIN call_arg.v = {"id", "title"}
     /\ IsStr(call_arg.v["id"]) /\ Truthy(call_arg.v["id"])) =>
    /\ ~call_ret.r.raised
    /\ call_ret.r.val = DefaultRecord(call_arg.v["id"], call_arg.v["title"])

\* C14 witness: the document {id: a, title: a} was normalized.
C14_Witness ==
  /\ call_ret.done
  /\ call_arg = AppDoc("a")
  /\ ~call_ret.r.raised
  /\ call_ret.r.val.appId = S("a")
  /\ call_ret.r.val.title = S("a")
  /\ call_ret.r.val.free

\* The first offer of a document and its micros, read off the raw document.
OfferOf(doc) == Get(doc, "offer", EmptyList)
MicrosOf(doc) ==
  IF ~Truthy(OfferOf(doc)) \/ ~IsDict(FirstOfferOf(OfferOf(doc))) THEN Absent
  ELSE Get(FirstOfferOf(OfferOf(doc)), "micros", Absent)

\* The documents C15 speaks of: nothing but id, title and offer, the offer
\* absent, empty, or with a first offer whose micros is absent, an integer or
\* a string.
InPriceDomain(doc) ==
  /\ DOMAIN doc.v \subseteq {"id", "title", "offer"}
  /\ OfferOf(doc) \in {EmptyList} \cup PricedOffers

\* The number a string of decimal digits denotes, digit by digit.
DecimalValue(s) ==
  LET RECURSIVE val(_)
      val(k) == IF k = 0 THEN 0 ELSE 10 * val(k - 1) + DigitVal(s[k])
  IN val(Len(s))

\* The price the claim gives: micros / 1,000,000 for an integer or a string
\* of decimal digits, 0 when micros is absent or the string is malformed.
ExpectedPrice(doc) ==
  LET m == MicrosOf(doc)
  IN IF IsNum(m) THEN Float(m.v, 1000000)
     ELSE IF IsStr(m) /\ Len(m.v) > 0 /\ (\A i \in 1..Len(m.v) : m.v[i] \in Digits)
          THEN Float(DecimalValue(m.v), 1000000)
     ELSE Float(0, 1)

\* C15: the price is micros / 1,000,000 for a number or a string of digits,
\* 0 when micros or the offer is absent or the micros string is malformed;
\* in every returned record free is true if and only if the price is 0.
C15_PriceDerivation ==
  /\ (call_ret.done /\ InPriceDomain(call_arg)) =>
       /\ ~call_ret.r.raised
       /\ call_ret.r.val.price = ExpectedPrice(call_arg)
  /\ (call_ret.done /\ ~call_ret.r.raised) =>
       (call_ret.r.val.free <=> call_ret.r.val.price = Float(0, 1))

\* C15 without the micros strings that hold a digit that is not decimal.
C15_HoldsOnDecimalStrings ==
  (IsStr(MicrosOf(call_arg)) => ~Contains(MicrosOf(call_arg).v, <<SuperscriptTwo>>))
    => C15_PriceDerivation

\* micros 1500000, as a number and as a string, gave price 1.5 and free false.
C15_PriceReached ==
  /\ call_ret.done /\ ~call_ret.r.raised
  /\ InPriceDomain(call_arg)
  /\ MicrosOf(call_arg) \in {Num(1500000), Str(<<"1", "5", "0", "0", "0", "0", "0">>)}
  /\ call_ret.r.val.price = [ty |-> "float", num |-> 3, den |-> 2]
  /\ ~call_ret.r.val.free

\* The micros string held a digit that int() does not parse: the call raised.
C15_SuperscriptRaises ==
  /\ call_ret.done
  /\ InPriceDomain(call_arg)
  /\ MicrosOf(call_arg) = S(SuperscriptTwo)
  /\ call_ret.r.raised
  /\ call_ret.r.exc = "ValueError"

\* C16: every search call eventually returns, whatever the remote client
\* answers: a call that has a request to send comes back to the caller.
C16_SearchReturns == (pc = "request") ~> (pc = "idle")

\* A page with a cursor and no new identifier leaves the call where it was:
\* the same request is due again with nothing accumulated (every page of the
\* call must bring something new for this to hold).
C16_EveryPageAdvances ==
  [][(pc = "request" /\ pc' = "request" /\ attempt' = 0 /\ attempt = 0)
       => (Len(all_apps') > Len(all_apps) \/ ~Truthy(next_page))]_vars

\* The loop does end when the remote client runs out of cursors or pages:
\* a page without cursor, an empty page or an error is always the last.
C16_ReturnsWithoutCursor ==
  [][(pc = "request" /\ pc' = "request" /\ attempt' = 0) => Truthy(next_page')]_vars

\* A request is due after a page that had a cursor and only known
\* identifiers: the call is where it was before that page.
C16_NoProgressReached ==
  /\ pc = "request"
  /\ n_hits = 4
  /\ Len(all_apps) = 3
  /\ next_page = Cur2


(***************************************************************************)
(* C17: in every reachable state, over any sequence of login_anonymous,    *)
(* login, search and details calls on one client and of module-level       *)
(* search calls on the default client, the flag _logged_in is true only if *)
(* some login request to the remote client succeeded, no search or details *)
(* request is waiting at the remote client while the flag is false, and no *)
(* step takes the flag from true to false.                                 *)
(***************************************************************************)
C17_AuthenticatedFlag ==
  /\ [](logged_in => login_done)
  /\ [](pc \in {"request", "details"} => logged_in)
  /\ [][logged_in => logged_in']_vars

\* The default client's first login failed, and a later module-level search
\* logged it in by itself and sent its request.
C17_DefaultClientRecovered ==
  /\ default_api = "client"
  /\ pc = "request"
  /\ logged_in
  /\ loginTrace.call = "anonymous"
  /\ loginTrace.flagBefore = FALSE


(***************************************************************************)
(* C18: the credential file                                                *)
(***************************************************************************)
\* The last request of a login trace, if it asked for fresh credentials
\* (anonymous or email and password).
EndsInFreshRequest(tr) ==
  /\ Len(tr.reqs) > 0
  /\ tr.reqs[Len(tr.reqs)].kind \in {"anonymous", "password"}

FreshSucceeded(tr) == EndsInFreshRequest(tr) /\ tr.reqs[Len(tr.reqs)].ok
FreshFailed(tr) == EndsInFreshRequest(tr) /\ ~tr.reqs[Len(tr.reqs)].ok

RestoreSucceeded(tr) ==
  /\ Len(tr.reqs) > 0
  /\ tr.reqs[Len(tr.reqs)].kind = "restore"
  /\ tr.reqs[Len(tr.reqs)].ok

\* The step is a call of search or details (module-level search included),
\* as opposed to a call of login_anonymous or login.
IsSearchOrDetailsCall == pc = "idle" /\ (pc' # "idle" \/ outcome' # "none")

\* What the claim says of the login requests, for one step: the file is
\* written, and changes, only in a call whose fresh login request succeeded,
\* and then holds the new tokens; when the fresh login request fails the
\* call raises, the file and the flag are as before; a restore that is
\* accepted leaves the file as it is, and so does every answer to a search
\* or details request.
LoginFileFrame ==
  /\ (pc # "idle") => cfgFile' = cfgFile
  /\ (pc = "idle") =>
       /\ (cfgFile' # cfgFile \/ loginTrace'.wrote) => FreshSucceeded(loginTrace')
       /\ FreshSucceeded(loginTrace') =>
            loginTrace'.wrote /\ cfgFile' = _save_config(apiTok')
       /\ FreshFailed(loginTrace') =>
            /\ loginTrace'.raised = "fresh"
            /\ IsSearchOrDetailsCall => outcome' = "raised_login"
            /\ cfgFile' = cfgFile
            /\ logged_in' = logged_in
       /\ RestoreSucceeded(loginTrace') => cfgFile' = cfgFile

\* C18, as stated: the credential file is written only after a login request
\* that succeeded with fresh credentials; when that request fails the call
\* raises, the file keeps its content and the flag is unchanged; search,
\* details and a successful restore from the cache leave the file unchanged.
C18_SearchLeavesFile ==
  [][LoginFileFrame /\ (IsSearchOrDetailsCall => cfgFile' = cfgFile)]_vars

\* C18, amended: as above, but search and details leave the file unchanged
\* when the client is authenticated; on a client that is not, they call
\* login_anonymous first, and the file is written exactly when its fresh
\* login request succeeds.
C18_FileWrittenByFreshLogin ==
  [][/\ LoginFileFrame
     /\ (IsSearchOrDetailsCall /\ logged_in) =>
          (cfgFile' = cfgFile /\ loginTrace' = NoTrace)
     /\ (IsSearchOrDetailsCall /\ ~logged_in) =>
          (cfgFile' # cfgFile => FreshSucceeded(loginTrace'))]_vars

\* A login whose restore was rejected and whose fresh request failed: the
\* call raised, the file holds the cached tokens it held before.
C18_FailedLoginKeptFile ==
  /\ loginTrace.raised = "fresh"
  /\ Len(loginTrace.reqs) = 2
  /\ cfgFile.kind = "json"
  /\ cfgFile = loginTrace.fileBefore
  /\ logged_in = loginTrace.flagBefore

\* A search on a client that was not authenticated wrote the file.
C18_SearchWroteFile ==
  /\ pc = "request"
  /\ loginTrace.call = "anonymous"
  /\ loginTrace.wrote
  /\ cfgFile # loginTrace.fileBefore

====
